---- MODULE Spec2Model ----
(***************************************************************************)
(* Beacon Data Analyzer (beacon_analyzer_app.py): the source query, the    *)
(* temperature schematic and the per-beacon resampling, as state machines. *)
(*                                                                         *)
(* Units.  Instants are whole seconds counted from midnight of the first   *)
(* day of the month.  Temperatures are whole 1/32 of a degree Celsius      *)
(* (multiples of 1/32 are exact in binary floating point, so round(1) is   *)
(* exactly numpy's round-half-to-even on them); a rounded maximum is in    *)
(* tenths of a degree.  A mean or a median is the fraction <<num, den>> in *)
(* lowest terms.  An absent value (None, NULL, NaN) is the empty tuple and *)
(* a present one the 1-tuple.  A beacon description is the tuple of the    *)
(* digits of its number: <<1, 0>> is "10" and sorts before <<2>>.          *)
(*                                                                         *)
(* Frames.  The three value columns of a DataFrame are float64, a NULL     *)
(* being NaN.  The table stores DateTime as the text strftime writes, so   *)
(* SQLite compares it character by character.                              *)
(***************************************************************************)
EXTENDS Integers, Sequences, FiniteSets, TLC

VARIABLES db, query, df, call, run

vars == <<db, query, df, call, run>>

\* ------------------------------------------------------------------ bounds
MaxRows == 2

MaxSamples == 3

MaxBeacons == 34

\* --------------------------------------------------------------- constants
Day == 86400

GridRows == 3

GridCols == 11

NearLimit == 5

ModerateLimit == 15

FirstCount == 10

DefaultCount == 3

SmartLimit == 10

NullPenalty == 10

GoodTempLow == 50

GoodTempHigh == 150

MinDataPoints == 10

GoodTempLimit == 15

CheckboxLimit == 20

None == <<>>

Some(x) == <<x>>

NoQuery == [start |-> <<>>, end |-> <<>>, sel |-> <<>>, loaded |-> FALSE]

NoCall == [op |-> "none", start |-> <<>>, end |-> <<>>, target |-> 0,
           beacon |-> <<>>, time_window |-> "", out |-> [fig |-> <<>>, msg |-> <<>>]]

\* No script run of main in progress (the engine functions called directly).
NoRun == [pc |-> "none"]

\* ----------------------------------------------------------------- helpers
Range(s) == {s[i] : i \in DOMAIN s}

SeqsUpTo(S, n) == UNION {[1..k -> S] : k \in 0..n}

MinOf(S) == CHOOSE x \in S : \A y \in S : x <= y

MaxOf(S) == CHOOSE x \in S : \A y \in S : x >= y

Abs(x) == IF x < 0 THEN -x ELSE x

\* Text comparison as SQLite's BINARY collation and Python's str order do it:
\* the first differing character decides, a proper prefix sorts first.
LexLess(a, b) ==
    \/ \E i \in 1..MinOf({Len(a), Len(b)}) :
          /\ \A j \in 1..(i - 1) : a[j] = b[j]
          /\ a[i] < b[i]
    \/ /\ Len(a) < Len(b)
       /\ \A j \in 1..Len(a) : a[j] = b[j]

LexLeq(a, b) == a = b \/ LexLess(a, b)

TwoDigits(n) == <<n \div 10, n % 10>>

\* strftime('%Y-%m-%d %H:%M:%S') within one month: day, hour, minute, second,
\* each zero-padded to two digits.
strftime(t) ==
    TwoDigits((t \div Day) + 1) \o TwoDigits((t % Day) \div 3600)
        \o TwoDigits((t % 3600) \div 60) \o TwoDigits(t % 60)

\* datetime.strptime(.., '%Y-%m-%d %H:%M:%S') and pd.to_datetime on the text.
strptime(s) ==
    ((s[1] * 10 + s[2]) - 1) * Day + (s[3] * 10 + s[4]) * 3600
        + (s[5] * 10 + s[6]) * 60 + (s[7] * 10 + s[8])

\* ------------------------------------------------ get_dataframe_from_database
\* Variant of WhereClause whose range excludes its end bound.
WhereClauseOpenEnd(row, startup_datetime_str, cutoff_datetime_str, selected_beacons) ==
    /\ LexLeq(startup_datetime_str, row.DateTime)
    /\ LexLess(row.DateTime, cutoff_datetime_str)
    /\ (selected_beacons # <<>> => row.BeaconDescription \in Range(selected_beacons))

\* Variant of WhereClause that applies the IN list even when it is empty.
WhereClauseAlwaysIn(row, startup_datetime_str, cutoff_datetime_str, selected_beacons) ==
    /\ LexLeq(startup_datetime_str, row.DateTime)
    /\ LexLeq(row.DateTime, cutoff_datetime_str)
    /\ row.BeaconDescription \in Range(selected_beacons)

\* WHERE event.DateTime BETWEEN ? AND ? [AND beacon.Description IN (...)]
\* `if selected_beacons:` is false for None and for the empty list alike.
WhereClause(row, startup_datetime_str, cutoff_datetime_str, selected_beacons) ==
    /\ LexLeq(startup_datetime_str, row.DateTime)
    /\ LexLeq(row.DateTime, cutoff_datetime_str)
    /\ (selected_beacons # <<>> => row.BeaconDescription \in Range(selected_beacons))

RECURSIVE InsertByDateTime(_, _)
InsertByDateTime(sorted, row) ==
    IF sorted = <<>> THEN <<row>>
    ELSE IF LexLess(row.DateTime, sorted[Len(sorted)].DateTime)
         THEN Append(InsertByDateTime(SubSeq(sorted, 1, Len(sorted) - 1), row),
                     sorted[Len(sorted)])
         ELSE Append(sorted, row)

\* ORDER BY event.DateTime; rows of equal DateTime stay in table order.
RECURSIVE OrderByDateTime(_)
OrderByDateTime(rows) ==
    IF rows = <<>> THEN <<>>
    ELSE InsertByDateTime(OrderByDateTime(SubSeq(rows, 1, Len(rows) - 1)),
                          rows[Len(rows)])

\* df['DateTime'] = pd.to_datetime(df['DateTime'])
to_datetime(rows) ==
    [i \in 1..Len(rows) |-> [rows[i] EXCEPT !.DateTime = strptime(rows[i].DateTime)]]

get_dataframe_from_database(table, start_str, cutoff_str, selected_beacons) ==
    LET Keep(row) == WhereClause(row, start_str, cutoff_str, selected_beacons)
    IN  to_datetime(OrderByDateTime(SelectSeq(table, Keep)))

\* ---------------------------------------- create_beacon_temperature_schematic
NoDataMsg == "No data found for the specified time range."

\* Variant of InRange that puts the two bounds in order first.
InRangeSwapping(row, startup_datetime, cutoff_datetime) ==
    /\ row.DateTime >= MinOf({startup_datetime, cutoff_datetime})
    /\ row.DateTime <= MaxOf({startup_datetime, cutoff_datetime})

\* df[(df['DateTime'] >= startup_datetime) & (df['DateTime'] <= cutoff_datetime)]
InRange(row, startup_datetime, cutoff_datetime) ==
    row.DateTime >= startup_datetime /\ row.DateTime <= cutoff_datetime

RangeFilter(frame, startup_datetime_str, cutoff_datetime_str) ==
    LET startup_datetime == strptime(startup_datetime_str)
        cutoff_datetime == strptime(cutoff_datetime_str)
        Keep(row) == InRange(row, startup_datetime, cutoff_datetime)
    IN  SelectSeq(frame, Keep)

\* groupby('BeaconDescription'): one group per description present.
GroupKeys(frame) == {frame[i].BeaconDescription : i \in DOMAIN frame}

\* The non-null values of one column in one group.
GroupValues(frame, beacon, column) ==
    {frame[i][column][1] : i \in {k \in DOMAIN frame :
        frame[k].BeaconDescription = beacon /\ frame[k][column] # None}}

\* .max() skips NaN; a group with no value at all gives NaN.
GroupMax(frame, beacon) ==
    LET values == GroupValues(frame, beacon, "ExternalSensorTemperature")
    IN  IF values = {} THEN None ELSE Some(MaxOf(values))

\* numpy round to one decimal of q/32 degrees, in tenths: rint(q / 32 * 10),
\* that is rint(5q / 16), ties to even.
RoundTenths(q) ==
    LET n == 5 * q
        floor == n \div 16
        rest == n % 16
    IN  IF rest < 8 THEN floor
        ELSE IF rest > 8 THEN floor + 1
        ELSE IF floor % 2 = 0 THEN floor ELSE floor + 1

\* .round(1) leaves NaN as NaN.
Round1(value) == IF value = None THEN None ELSE Some(RoundTenths(value[1]))

max_temps(frame) ==
    [beacon \in GroupKeys(frame) |-> Round1(GroupMax(frame, beacon))]

\* Variant of sorted that orders the descriptions as numbers (shorter first).
RECURSIVE sorted_numeric(_)
sorted_numeric(S) ==
    IF S = {} THEN <<>>
    ELSE LET least == CHOOSE x \in S : \A y \in S :
                          Len(x) < Len(y) \/ (Len(x) = Len(y) /\ LexLeq(x, y))
         IN  <<least>> \o sorted_numeric(S \ {least})

\* sorted(list of str)
RECURSIVE sorted(_)
sorted(S) ==
    IF S = {} THEN <<>>
    ELSE LET least == CHOOSE x \in S : \A y \in S : LexLeq(x, y)
         IN  <<least>> \o sorted(S \ {least})

\* Variant of CellColor with the bands open at their upper ends (< for <=).
CellColorStrict(max_temp, target_temp) ==
    IF max_temp = None THEN "lightcoral"
    ELSE LET temp_diff == Abs(max_temp[1] - 10 * target_temp)
         IN  IF temp_diff < 10 * NearLimit THEN "lightgreen"
             ELSE IF temp_diff < 10 * ModerateLimit THEN "yellow"
             ELSE "lightcoral"

\* abs(max_temp - target_temp) <= 5 / <= 15 / else; every comparison with
\* NaN is false, so a NaN maximum falls through to the else branch.
CellColor(max_temp, target_temp) ==
    IF max_temp = None THEN "lightcoral"
    ELSE LET temp_diff == Abs(max_temp[1] - 10 * target_temp)
         IN  IF temp_diff <= 10 * NearLimit THEN "lightgreen"
             ELSE IF temp_diff <= 10 * ModerateLimit THEN "yellow"
             ELSE "lightcoral"

EmptyCell == [beacon |-> None, temp |-> None, color |-> "white", text |-> "Empty"]

\* The 3x11 axes in row-major order: cell i*11+j (here 1-based).
Grid(frame, target_temp) ==
    LET temps == max_temps(frame)
        beacons == sorted(DOMAIN temps)
    IN  [idx \in 1..(GridRows * GridCols) |->
            IF idx - 1 < Len(beacons)
            THEN [beacon |-> Some(beacons[idx]),
                  temp   |-> temps[beacons[idx]],
                  color  |-> CellColor(temps[beacons[idx]], target_temp),
                  text   |-> "max_temp"]
            ELSE EmptyCell]

\* Variant of the schematic that tests the frame, not the filtered frame, for
\* emptiness.
schematic_unfiltered_test(frame, start_str, cutoff_str, target_temp) ==
    LET filtered_df == RangeFilter(frame, start_str, cutoff_str)
    IN  IF frame = <<>>
        THEN [fig |-> None, msg |-> Some(NoDataMsg)]
        ELSE [fig |-> Some(Grid(filtered_df, target_temp)), msg |-> None]

create_beacon_temperature_schematic(frame, start_str, cutoff_str, target_temp) ==
    LET filtered_df == RangeFilter(frame, start_str, cutoff_str)
    IN  IF filtered_df = <<>>
        THEN [fig |-> None, msg |-> Some(NoDataMsg)]
        ELSE [fig |-> Some(Grid(filtered_df, target_temp)), msg |-> None]

\* ------------------------------------------------------ create_interactive_plot
\* options=['1min', '5min', '10min', '30min', '1H'], as seconds.
TimeWindows == {"1min", "5min", "10min", "30min", "1H"}

Seconds(time_window) ==
    CASE time_window = "1min" -> 60
      [] time_window = "5min" -> 300
      [] time_window = "10min" -> 600
      [] time_window = "30min" -> 1800
      [] time_window = "1H" -> 3600

RECURSIVE GCD(_, _)
GCD(a, b) == IF b = 0 THEN a ELSE GCD(b, a % b)

\* The fraction num/den (den > 0) in lowest terms.
Frac(num, den) ==
    LET g == GCD(Abs(num), den) IN <<num \div g, den \div g>>

RECURSIVE SumSeq(_)
SumSeq(values) ==
    IF values = <<>> THEN 0 ELSE values[1] + SumSeq(Tail(values))

RECURSIVE InsertValue(_, _)
InsertValue(ordered, v) ==
    IF ordered = <<>> THEN <<v>>
    ELSE IF v < ordered[Len(ordered)]
         THEN Append(InsertValue(SubSeq(ordered, 1, Len(ordered) - 1), v),
                     ordered[Len(ordered)])
         ELSE Append(ordered, v)

RECURSIVE SortValues(_)
SortValues(values) ==
    IF values = <<>> THEN <<>>
    ELSE InsertValue(SortValues(Tail(values)), values[1])

\* .mean() of a bin: NaN values are skipped, an empty bin gives NaN.
mean(values) ==
    IF values = <<>> THEN None ELSE Some(Frac(SumSeq(values), Len(values)))

\* Variant of median that takes the lower middle value for an even count.
median_lower(values) ==
    LET ordered == SortValues(values)
        n == Len(ordered)
    IN  IF n = 0 THEN None
        ELSE Some(Frac(ordered[(n + 1) \div 2], 1))

\* .median() of a bin: the middle value, or the average of the two middle ones.
median(values) ==
    LET ordered == SortValues(values)
        n == Len(ordered)
    IN  IF n = 0 THEN None
        ELSE IF n % 2 = 1 THEN Some(Frac(ordered[(n + 1) \div 2], 1))
        ELSE Some(Frac(ordered[n \div 2] + ordered[(n \div 2) + 1], 2))

\* df[df['BeaconDescription'] == beacon]
BeaconData(frame, beacon) ==
    LET Keep(row) == row.BeaconDescription = beacon IN SelectSeq(frame, Keep)

\* Variant of BinStart anchored at the first sample (origin='start').
BinStartFromFirst(ts, first, w) == first + ((ts - first) \div w) * w

\* Variant of BinStart with bins closed on the right, (edge, edge + w].
BinStartClosedRight(ts, first, w) ==
    LET origin == (first \div Day) * Day
    IN  origin + ((ts - origin - 1) \div w) * w

\* Left edge of the bin of instant ts: bins are [edge, edge + w), counted
\* from origin='start_day', midnight of the day of the first sample.
BinStart(ts, first, w) ==
    LET origin == (first \div Day) * Day
    IN  origin + ((ts - origin) \div w) * w

\* The non-null values of a column whose instant lies in [start, start + w).
BinValues(beacon_data, column, first, start, w) ==
    LET Keep(row) == BinStart(row.DateTime, first, w) = start /\ row[column] # None
        rows == SelectSeq(beacon_data, Keep)
    IN  [i \in 1..Len(rows) |-> rows[i][column][1]]

Aggregate(how, values) == IF how = "mean" THEN mean(values) ELSE median(values)

RECURSIVE Ascending(_)
Ascending(S) ==
    IF S = {} THEN <<>> ELSE <<MinOf(S)>> \o Ascending(S \ {MinOf(S)})

\* Variant of resample that emits only the bins that hold a sample (a groupby
\* on the floored instant).
resample_occupied(beacon_data, column, time_window, how) ==
    LET w == Seconds(time_window)
        instants == {beacon_data[i].DateTime : i \in DOMAIN beacon_data}
        first == MinOf(instants)
        starts == Ascending({BinStart(ts, first, w) : ts \in instants})
    IN  [k \in 1..Len(starts) |->
            [index |-> starts[k],
             value |-> Aggregate(how, BinValues(beacon_data, column, first,
                                                 starts[k], w))]]

\* beacon_data[column].resample(time_window).mean() / .median(): one entry per
\* bin from the bin of the first sample to the bin of the last one.
resample(beacon_data, column, time_window, how) ==
    LET w == Seconds(time_window)
        instants == {beacon_data[i].DateTime : i \in DOMAIN beacon_data}
        first == MinOf(instants)
        last == MaxOf(instants)
        first_bin == BinStart(first, first, w)
        last_bin == BinStart(last, first, w)
        count == ((last_bin - first_bin) \div w) + 1
    IN  [k \in 1..count |->
            [index |-> first_bin + (k - 1) * w,
             value |-> Aggregate(how, BinValues(beacon_data, column, first,
                                                 first_bin + (k - 1) * w, w))]]

\* Variant of create_interactive_plot that plots empty series for a beacon
\* without rows instead of returning None.
plot_empty_series(frame, beacon, time_window) ==
    LET beacon_data == BeaconData(frame, beacon)
    IN  IF beacon_data = <<>>
        THEN Some([temp_resampled |-> <<>>, temp_ext1_resampled |-> <<>>,
                   rssi_median |-> <<>>])
        ELSE Some([temp_resampled |->
                       resample(beacon_data, "ExternalSensorTemperature",
                                time_window, "mean"),
                   temp_ext1_resampled |->
                       resample(beacon_data, "ExternalSensorTemperatureExt1",
                                time_window, "mean"),
                   rssi_median |->
                       resample(beacon_data, "RSSI", time_window, "median")])

create_interactive_plot(frame, beacon, time_window) ==
    LET beacon_data == BeaconData(frame, beacon)
    IN  IF beacon_data = <<>> THEN None
        ELSE Some([temp_resampled |->
                       resample(beacon_data, "ExternalSensorTemperature",
                                time_window, "mean"),
                   temp_ext1_resampled |->
                       resample(beacon_data, "ExternalSensorTemperatureExt1",
                                time_window, "mean"),
                   rssi_median |->
                       resample(beacon_data, "RSSI", time_window, "median")])

\* ------------------------------------------------------------------------ main
\* SELECT DISTINCT beacon.Description FROM Beacon ORDER BY beacon.Description;
\* a file that cannot be read gives [] as well.
get_beacons_from_db(beacon_table) == sorted(beacon_table)

\* SELECT MIN(DateTime), MAX(DateTime) FROM BeaconEvent, a comparison of texts;
\* over no rows both are NULL and pd.to_datetime(None) is None.
get_date_range_from_db(table) ==
    IF table = <<>> THEN None
    ELSE LET texts == {table[i].DateTime : i \in DOMAIN table}
             min_date == CHOOSE x \in texts : \A y \in texts : LexLeq(x, y)
             max_date == CHOOSE x \in texts : \A y \in texts : LexLeq(y, x)
         IN  Some(<<strptime(min_date), strptime(max_date)>>)

\* list[:n]
FirstN(list, n) == SubSeq(list, 1, MinOf({n, Len(list)}))

\* Stable insertion into a sequence kept in descending order of sort_key.
RECURSIVE InsertDescending(_, _)
InsertDescending(ordered, item) ==
    IF ordered = <<>> THEN <<item>>
    ELSE IF item.sort_key > ordered[Len(ordered)].sort_key
         THEN Append(InsertDescending(SubSeq(ordered, 1, Len(ordered) - 1), item),
                     ordered[Len(ordered)])
         ELSE Append(ordered, item)

RECURSIVE SortDescending(_)
SortDescending(items) ==
    IF items = <<>> THEN <<>>
    ELSE InsertDescending(SortDescending(SubSeq(items, 1, Len(items) - 1)),
                          items[Len(items)])

\* One row per beacon with a reading in [start, end]: COUNT(*), AVG of the
\* non-null primary temperatures, the count of null ones; ORDER BY DataPoints
\* DESC over the groups in description order.
get_beacon_data_quality(table, start_datetime_str, end_datetime_str) ==
    LET Keep(row) == /\ LexLeq(start_datetime_str, row.DateTime)
                     /\ LexLeq(row.DateTime, end_datetime_str)
        rows == SelectSeq(table, Keep)
        groups == sorted(GroupKeys(rows))
        HasTemp(row) == row.ExternalSensorTemperature # None
        Stat(beacon) ==
            LET events == BeaconData(rows, beacon)
                valued == SelectSeq(events, HasTemp)
            IN  [BeaconDescription |-> beacon,
                 DataPoints |-> Len(events),
                 AvgTemp |-> mean([i \in 1..Len(valued) |->
                                     valued[i].ExternalSensorTemperature[1]]),
                 NullTemps |-> Len(events) - Len(valued),
                 sort_key |-> Len(events)]
    IN  SortDescending([i \in 1..Len(groups) |-> Stat(groups[i])])

\* Smart Select: nlargest(10, DataPoints - NullTemps * 10), else beacons[:10].
SmartSelect(quality_df, beacons) ==
    IF quality_df = <<>> THEN FirstN(beacons, FirstCount)
    ELSE LET scored == [i \in DOMAIN quality_df |->
                           [quality_df[i] EXCEPT !.sort_key =
                               quality_df[i].DataPoints
                                   - quality_df[i].NullTemps * NullPenalty]]
             top_beacons == FirstN(SortDescending(scored), SmartLimit)
         IN  [i \in DOMAIN top_beacons |-> top_beacons[i].BeaconDescription]

\* Good Temp: 50 <= AvgTemp <= 150 (a NULL average fails both) and at least 10
\* data points, at most 15 of them, else beacons[:10].
GoodTemp(quality_df, beacons) ==
    LET Good(q) ==
            /\ q.AvgTemp # None
            /\ q.AvgTemp[1][1] >= 32 * GoodTempLow * q.AvgTemp[1][2]
            /\ q.AvgTemp[1][1] <= 32 * GoodTempHigh * q.AvgTemp[1][2]
            /\ q.DataPoints >= MinDataPoints
        good == SelectSeq(quality_df, Good)
        good_temp == [i \in DOMAIN good |-> good[i].BeaconDescription]
    IN  IF quality_df # <<>> /\ good_temp # <<>>
        THEN FirstN(good_temp, GoodTempLimit)
        ELSE FirstN(beacons, FirstCount)

\* `pattern.lower() in b.lower()`: the pattern occurs in the description.
Contains(b, pattern) ==
    \E k \in 0..(Len(b) - Len(pattern)) : SubSeq(b, k + 1, k + Len(pattern)) = pattern

\* list(set(..)): the elements once each, in an order Python does not fix.
Orderings(S) ==
    {q \in [1..Cardinality(S) -> S] : \A i, j \in DOMAIN q : q[i] = q[j] => i = j}

\* The checkbox grid, one box per beacon in list order: a ticked beacon is
\* appended if missing, an unticked one removed if present.
RECURSIVE ApplyCheckboxes(_, _, _)
ApplyCheckboxes(selection, beacons, ticked) ==
    IF beacons = <<>> THEN selection
    ELSE LET beacon == Head(beacons)
             Other(b) == b # beacon
             after == IF beacon \in ticked
                      THEN IF beacon \in Range(selection) THEN selection
                           ELSE Append(selection, beacon)
                      ELSE SelectSeq(selection, Other)
         IN  ApplyCheckboxes(after, Tail(beacons), ticked)

NoSummary == [green_count |-> 0, yellow_count |-> 0, red_count |-> 0,
              total_beacons |-> 0, shown |-> FALSE]

\* Schematic Summary: df.groupby(..).max() without rounding, |max - target|
\* against 5 and 15; a NaN maximum satisfies none of the three tests.
SchematicSummary(frame, target_temp) ==
    LET temp_data == [beacon \in GroupKeys(frame) |-> GroupMax(frame, beacon)]
        valued == {beacon \in DOMAIN temp_data : temp_data[beacon] # None}
        temp_diffs == [beacon \in valued |->
                          Abs(temp_data[beacon][1] - 32 * target_temp)]
    IN  [green_count |->
             Cardinality({b \in valued : temp_diffs[b] <= 32 * NearLimit}),
         yellow_count |->
             Cardinality({b \in valued : /\ temp_diffs[b] > 32 * NearLimit
                                         /\ temp_diffs[b] <= 32 * ModerateLimit}),
         red_count |->
             Cardinality({b \in valued : temp_diffs[b] > 32 * ModerateLimit}),
         total_beacons |-> Cardinality(DOMAIN temp_data),
         shown |-> TRUE]

\* The plots of the selected beacons that have rows in the frame.
RECURSIVE BeaconPlots(_, _, _)
BeaconPlots(frame, selected_beacons, time_window) ==
    IF selected_beacons = <<>> THEN <<>>
    ELSE LET beacon == Head(selected_beacons)
             rest == BeaconPlots(frame, Tail(selected_beacons), time_window)
         IN  IF BeaconData(frame, beacon) = <<>> THEN rest
             ELSE <<[beacon |-> beacon,
                     fig |-> create_interactive_plot(frame, beacon, time_window)]>>
                      \o rest

\* A script run of main about to start: no local is bound yet; the session
\* state and the uploaded file's Beacon table outlive the run.
FreshRun(beacon_table, session) ==
    [pc |-> "start", tmp |-> "none", beacon_table |-> beacon_table,
     session |-> session, beacons |-> <<>>, date_range |-> None,
     button |-> "none", selected_beacons |-> <<>>,
     start_datetime |-> None, end_datetime |-> None,
     exit |-> "", error |-> "", read_deleted |-> FALSE,
     summary |-> NoSummary, plots |-> <<>>]

\* ------------------------------------------------------------ input domains
Beacons == {<<2>>, <<1, 0>>}

UnknownBeacon == <<9>>

\* 10:03:00 and 23:59:30 of day 1, 00:00:10 of day 2.
Times == {36180, 86370, 86410}

\* 10:00:00, 10:03:00 and 10:05:00 of day 1.
SampleTimes == {36000, 36180, 36300}

\* NULL, 120.0 and 120.25 degrees (in 1/32); 120.25 rounds to 120.2.
Temperatures == {None, Some(3840), Some(3848)}

\* st.number_input(min_value=50, max_value=150, value=115)
Targets == {105, 115, 125}

\* The optional IN (...) list: none, one beacon, both, one the table lacks.
Selections == {<<>>, <<<<2>>>>, <<<<1, 0>>, <<2>>>>, <<UnknownBeacon>>}

Row(t, beacon, temp, ext1, rssi) ==
    [DateTime |-> t, BeaconDescription |-> beacon,
     ExternalSensorTemperature |-> temp,
     ExternalSensorTemperatureExt1 |-> ext1, RSSI |-> rssi]

\* Rows of BeaconEvent joined with Beacon; DateTime is stored as text.
TableRows ==
    {Row(strftime(t), b, Some(3840), None, Some(-70)) : t \in Times, b \in Beacons}

\* Rows of a DataFrame handed to the schematic; it reads three columns.
FrameRows ==
    {Row(t, b, temp, None, None) : t \in Times, b \in Beacons, temp \in Temperatures}

\* (primary, secondary, RSSI) of a sample: 110/112/-70, 120/118/-72, and one
\* with only the secondary temperature.
Samples == {<<Some(3520), Some(3584), Some(-70)>>,
            <<Some(3840), Some(3776), Some(-72)>>,
            <<None, Some(3776), None>>}

\* Beacon "2" carries every sample, beacon "10" the first one only.
SampleRows ==
    {Row(strftime(t), <<2>>, m[1], m[2], m[3]) : t \in SampleTimes, m \in Samples}
        \cup {Row(strftime(t), <<1, 0>>, Some(3520), Some(3584), Some(-70)) :
                 t \in SampleTimes}

\* NULL, 120.0 and 120.03125 degrees; 120.03125 rounds to 120.0.
MainTemperatures == {None, Some(3840), Some(3841)}

\* Readings at 10:03:00 of day 1.
MainRows ==
    {Row(strftime(36180), b, temp, None, Some(-70)) :
        b \in Beacons, temp \in MainTemperatures}

\* The default start and end times, 10:00 and 18:00, on day 1.
Instants == {36000, 64800}

\* The button whose click started the script run, if any.
Buttons == {"none", "select_all", "clear_all", "first_10", "smart_select",
            "good_temp", "select_range", "apply_pattern", "analyze"}

Patterns == {<<1>>, <<2>>}

MainWindows == {"5min", "1H"}

IsOrderedByDateTime(rows) ==
    \A i \in 1..(Len(rows) - 1) : LexLeq(rows[i].DateTime, rows[i + 1].DateTime)

\* -------------------------------------------------------------------- actions
\* main, lines 488-493: load the DataFrame for a range and a selection.
QueryDatabase(s, e, sel) ==
    /\ db # <<>> \/ query = NoQuery
    /\ query' = [start |-> strftime(s), end |-> strftime(e), sel |-> sel,
                 loaded |-> TRUE]
    /\ df' = get_dataframe_from_database(db, strftime(s), strftime(e), sel)
    /\ call' = NoCall
    /\ UNCHANGED <<db, run>>

\* create_beacon_temperature_schematic(df, start, end, target) on the frame.
DrawSchematic(s, e, target_temp) ==
    /\ call' = [op |-> "schematic", start |-> strftime(s), end |-> strftime(e),
                target |-> target_temp, beacon |-> None, time_window |-> "",
                out |-> create_beacon_temperature_schematic(
                            df, strftime(s), strftime(e), target_temp)]
    /\ UNCHANGED <<db, query, df, run>>

\* create_interactive_plot(df, beacon, time_window) on the loaded frame.
PlotBeacon(beacon, time_window) ==
    /\ call' = [op |-> "plot", start |-> <<>>, end |-> <<>>, target |-> 0,
                beacon |-> Some(beacon), time_window |-> time_window,
                out |-> [fig |-> create_interactive_plot(df, beacon, time_window),
                         msg |-> None]]
    /\ UNCHANGED <<db, query, df, run>>

\* Variant of Leave in which an early return ends the run at once, as if the
\* return statements stood outside the try block.
LeaveSkippingCleanup(r, how) ==
    [r EXCEPT !.pc = IF how \in {"no_beacons", "no_date_range",
                                 "no_selection", "no_data"}
                     THEN "done" ELSE "finally",
              !.exit = how]

\* main, try: ... finally: a return or an exception inside the try block
\* passes through the finally clause.
Leave(r, how) == [r EXCEPT !.pc = "finally", !.exit = how]

\* sqlite3.connect(db_path) and a query on the temporary file.
Reads(r) == [r EXCEPT !.read_deleted = @ \/ r.tmp # "exists"]

\* main, lines 246-256 and 599-610: the uploaded file is written to a
\* temporary file; without an upload the page only shows the instructions.
Upload(uploaded) ==
    /\ run.pc = "start"
    /\ run' = IF uploaded
              THEN [run EXCEPT !.pc = "beacons", !.tmp = "exists"]
              ELSE [run EXCEPT !.pc = "done", !.exit = "no_upload"]
    /\ UNCHANGED <<db, query, df, call>>

\* main, lines 259-264.
LoadBeacons ==
    /\ run.pc = "beacons"
    /\ LET beacons == get_beacons_from_db(run.beacon_table)
           r == [Reads(run) EXCEPT !.beacons = beacons]
       IN  run' = IF beacons = <<>> THEN Leave(r, "no_beacons")
                  ELSE [r EXCEPT !.pc = "range"]
    /\ UNCHANGED <<db, query, df, call>>

\* main, lines 266-271.
LoadDateRange ==
    /\ run.pc = "range"
    /\ LET date_range == get_date_range_from_db(db)
           r == [Reads(run) EXCEPT !.date_range = date_range]
       IN  run' = IF date_range = None THEN Leave(r, "no_date_range")
                  ELSE [r EXCEPT !.pc = "buttons"]
    /\ UNCHANGED <<db, query, df, call>>

\* main, lines 279-326: the quick selection buttons.  Smart Select and Good
\* Temp read the locals start_datetime and end_datetime; reading a local that
\* is not bound yet raises UnboundLocalError.
PressButton(b) ==
    /\ run.pc = "buttons"
    /\ LET r == [run EXCEPT !.button = b, !.pc = "select"]
       IN  run' =
             CASE b = "select_all" -> [r EXCEPT !.session = Some(run.beacons)]
               [] b = "clear_all" -> [r EXCEPT !.session = Some(<<>>)]
               [] b = "first_10" ->
                    [r EXCEPT !.session = Some(FirstN(run.beacons, FirstCount))]
               [] b \in {"smart_select", "good_temp"} ->
                    IF run.start_datetime = None \/ run.end_datetime = None
                    THEN Leave([r EXCEPT !.error = "UnboundLocalError"], "exception")
                    ELSE LET quality_df == get_beacon_data_quality(
                                 db, strftime(run.start_datetime[1]),
                                 strftime(run.end_datetime[1]))
                         IN  [Reads(r) EXCEPT !.session =
                                 Some(IF b = "smart_select"
                                      THEN SmartSelect(quality_df, run.beacons)
                                      ELSE GoodTemp(quality_df, run.beacons))]
               [] OTHER -> r
    /\ UNCHANGED <<db, query, df, call>>

\* main, lines 328-430.  The session default (beacons[:3]) and the union made
\* by Select Range are overwritten at line 379 by what the multiselect returns;
\* Apply Pattern adds the matches to the session state and calls st.rerun(),
\* which raises; the checkbox grid edits the list that selected_beacons and
\* the session state share.
SelectBeacons(chosen, ticked, pattern) ==
    /\ run.pc = "select"
    /\ Range(chosen) \subseteq Range(run.beacons)
    /\ ticked \subseteq Range(run.beacons)
    /\ IF chosen # <<>> /\ run.button = "apply_pattern"
       THEN \E session \in Orderings(Range(chosen) \cup
                    {b \in Range(run.beacons) : Contains(b, pattern)}) :
                run' = Leave([run EXCEPT !.selected_beacons = chosen,
                                         !.session = Some(session)], "rerun")
       ELSE LET selected_beacons ==
                    IF Len(run.beacons) <= CheckboxLimit
                    THEN ApplyCheckboxes(chosen, run.beacons, ticked)
                    ELSE chosen
            IN  run' = [run EXCEPT !.selected_beacons = selected_beacons,
                                   !.session = Some(selected_beacons),
                                   !.pc = "inputs"]
    /\ UNCHANGED <<db, query, df, call>>

\* main, lines 432-592: the date and time inputs bind start_datetime and
\* end_datetime; Analyze Data queries the file, draws the schematic with its
\* summary when asked to, and plots each selected beacon that has rows.  The
\* query has no handler of its own: when it raises, the exception leaves main.
Analyze(s, e, time_window, show_schematic, target_temp, raises) ==
    /\ run.pc = "inputs"
    /\ \A t \in {s, e} : /\ run.date_range[1][1] \div Day <= t \div Day
                         /\ t \div Day <= run.date_range[1][2] \div Day
    /\ LET r == [run EXCEPT !.start_datetime = Some(s), !.end_datetime = Some(e)]
           selected_beacons == run.selected_beacons
           frame == get_dataframe_from_database(
                        db, strftime(s), strftime(e), selected_beacons)
           out == create_beacon_temperature_schematic(
                      frame, strftime(s), strftime(e), target_temp)
       IN  IF run.button # "analyze"
           THEN run' = Leave(r, "completed") /\ UNCHANGED <<query, df, call>>
           ELSE IF selected_beacons = <<>>
           THEN run' = Leave(r, "no_selection") /\ UNCHANGED <<query, df, call>>
           ELSE IF raises
           THEN /\ run' = Leave([Reads(r) EXCEPT !.error = "DatabaseError"],
                                "exception")
                /\ UNCHANGED <<query, df, call>>
           ELSE /\ query' = [start |-> strftime(s), end |-> strftime(e),
                             sel |-> selected_beacons, loaded |-> TRUE]
                /\ df' = frame
                /\ IF frame = <<>>
                   THEN run' = Leave(Reads(r), "no_data") /\ call' = NoCall
                   ELSE /\ call' =
                             IF show_schematic
                             THEN [op |-> "schematic", start |-> strftime(s),
                                   end |-> strftime(e), target |-> target_temp,
                                   beacon |-> None, time_window |-> "", out |-> out]
                             ELSE NoCall
                        /\ run' = Leave(
                             [Reads(r) EXCEPT
                                 !.summary =
                                     IF show_schematic /\ out.msg = None
                                                       /\ out.fig # None
                                     THEN SchematicSummary(frame, target_temp)
                                     ELSE NoSummary,
                                 !.plots = BeaconPlots(frame, selected_beacons,
                                                       time_window)],
                             "completed")
    /\ UNCHANGED db

\* main, lines 594-597: if os.path.exists(db_path): os.unlink(db_path)
Finally ==
    /\ run.pc = "finally"
    /\ run' = [run EXCEPT !.pc = "done",
                          !.tmp = IF @ = "exists" THEN "deleted" ELSE @]
    /\ UNCHANGED <<db, query, df, call>>

\* Streamlit runs the script again on the next interaction: the locals and
\* what was displayed are gone, st.session_state stays.
NextRun ==
    /\ run.pc = "done"
    /\ run' = FreshRun(run.beacon_table, run.session)
    /\ query' = NoQuery
    /\ df' = <<>>
    /\ call' = NoCall
    /\ UNCHANGED db

\* ------------------------------------------------------------ specifications
\* The source query on an uploaded table.
Init ==
    /\ db \in SeqsUpTo(TableRows, MaxRows)
    /\ query = NoQuery
    /\ df = <<>>
    /\ call = NoCall
    /\ run = NoRun

Next == \E s \in Times, e \in Times, sel \in Selections : QueryDatabase(s, e, sel)

Spec == Init /\ [][Next]_vars

\* The schematic on a DataFrame its caller built (test_schematic.py), rows in
\* DateTime order as the query delivers them.
InitSchematic ==
    /\ db = <<>>
    /\ query = NoQuery
    /\ df \in {rows \in SeqsUpTo(FrameRows, MaxRows) :
                 \A i \in 1..(Len(rows) - 1) : rows[i].DateTime <= rows[i + 1].DateTime}
    /\ call = NoCall
    /\ run = NoRun

NextSchematic ==
    \E s \in Times, e \in Times, target_temp \in Targets :
        DrawSchematic(s, e, target_temp)

SpecSchematic == InitSchematic /\ [][NextSchematic]_vars

\* A frame with one reading for each of n beacons "01", "02", ..., all at one
\* instant and with one temperature (test_schematic.py builds 24 of them).
CrowdedFrame(n, t, temp) ==
    [k \in 1..n |-> Row(t, TwoDigits(k), temp, None, None)]

\* The schematic on frames of up to MaxBeacons beacons.
InitGrid ==
    /\ db = <<>>
    /\ query = NoQuery
    /\ df \in {CrowdedFrame(n, t, temp) :
                 n \in 0..MaxBeacons, t \in Times, temp \in Temperatures}
    /\ call = NoCall
    /\ run = NoRun

SpecGrid == InitGrid /\ [][NextSchematic]_vars

\* The plots of main on the frame the query returned for a range [s, e].
InitResample ==
    \E s \in SampleTimes, e \in SampleTimes :
        /\ s <= e
        /\ db \in {rows \in SeqsUpTo(SampleRows, MaxSamples) :
                     /\ IsOrderedByDateTime(rows)
                     /\ \A i \in DOMAIN rows :
                            LexLeq(strftime(s), rows[i].DateTime)
                            /\ LexLeq(rows[i].DateTime, strftime(e))}
        /\ query = [start |-> strftime(s), end |-> strftime(e),
                    sel |-> <<<<1, 0>>, <<2>>>>, loaded |-> TRUE]
        /\ df = get_dataframe_from_database(db, query.start, query.end, query.sel)
        /\ call = NoCall
        /\ run = NoRun

NextResample ==
    \E beacon \in Beacons, time_window \in TimeWindows :
        PlotBeacon(beacon, time_window)

SpecResample == InitResample /\ [][NextResample]_vars

\* Script runs of main on an uploaded file whose Beacon table lists at least
\* the beacons of its events.
InitMain ==
    /\ db \in SeqsUpTo(MainRows, MaxRows)
    /\ query = NoQuery
    /\ df = <<>>
    /\ call = NoCall
    /\ \E beacon_table \in SUBSET Beacons :
           /\ GroupKeys(db) \subseteq beacon_table
           /\ run = FreshRun(beacon_table, None)

NextMain ==
    \/ \E uploaded \in BOOLEAN : Upload(uploaded)
    \/ LoadBeacons
    \/ LoadDateRange
    \/ \E b \in Buttons : PressButton(b)
    \/ \E chosen \in UNION {Orderings(S) : S \in SUBSET Beacons},
          ticked \in SUBSET Beacons, pattern \in Patterns :
           SelectBeacons(chosen, ticked, pattern)
    \/ \E s \in Instants, e \in Instants, time_window \in MainWindows,
          show_schematic \in BOOLEAN, target_temp \in Targets, raises \in BOOLEAN :
           Analyze(s, e, time_window, show_schematic, target_temp, raises)
    \/ Finally
    \/ NextRun

SpecMain == InitMain /\ [][NextMain]_vars

\* ===================================================================== claims
Count(rows, x) == Cardinality({i \in DOMAIN rows : rows[i] = x})

SameRows(a, b) ==
    /\ Len(a) = Len(b)
    /\ \A x \in Range(a) \cup Range(b) : Count(a, x) = Count(b, x)

SchematicCalled == call.op = "schematic"

CallStart == strptime(call.start)

CallEnd == strptime(call.end)

\* Indices of the frame's rows whose instant lies in the call's [start, end].
RowsInCallRange == {i \in DOMAIN df : CallStart <= df[i].DateTime /\ df[i].DateTime <= CallEnd}

\* The grid cells that show a beacon.
BeaconCells ==
    IF SchematicCalled /\ call.out.fig # None
    THEN {c \in Range(call.out.fig[1]) : c.beacon # None}
    ELSE {}

\* C1 (as claimed): a beacon whose in-range readings all have a null primary
\* temperature has no cell in the schematic: every beacon shown has an in-range
\* reading with a primary temperature.
C1_SummaryExclusion ==
    \A c \in BeaconCells :
        \E i \in RowsInCallRange :
            /\ df[i].BeaconDescription = c.beacon[1]
            /\ df[i].ExternalSensorTemperature # None

\* C2: a beacon shown with rounded maximum m (tenths) against target t is
\* lightgreen iff |m - t| <= 5.0, yellow iff 5.0 < |m - t| <= 15.0, lightcoral
\* iff |m - t| > 15.0, and every beacon shown has exactly one of the three colors.
C2_ClassificationBoundary ==
    \A c \in BeaconCells :
        /\ c.color \in {"lightgreen", "yellow", "lightcoral"}
        /\ c.temp # None =>
              LET d == Abs(c.temp[1] - 10 * call.target)
              IN  /\ (c.color = "lightgreen") <=> (d <= 50)
                  /\ (c.color = "yellow") <=> (d > 50 /\ d <= 150)
                  /\ (c.color = "lightcoral") <=> (d > 150)

\* A difference of exactly 5.0 shown green next to one of 5.2 shown yellow.
C2_Witness ==
    /\ \E c \in BeaconCells :
          c.temp # None /\ Abs(c.temp[1] - 10 * call.target) = 50
          /\ c.color = "lightgreen"
    /\ \E c \in BeaconCells :
          c.temp # None /\ Abs(c.temp[1] - 10 * call.target) = 52
          /\ c.color = "yellow"

QueryStart == strptime(query.start)

QueryEnd == strptime(query.end)

\* The table rows the selection lets through, and those also inside [s, e].
PassesSelection(row) ==
    query.sel = <<>> \/ row.BeaconDescription \in Range(query.sel)

InsideQueryRange(row) ==
    QueryStart <= strptime(row.DateTime) /\ strptime(row.DateTime) <= QueryEnd

\* C3: for a range s <= e, a table row (of a selected beacon) is in the loaded
\* frame iff s <= timestamp <= e, both ends inclusive, and the in-memory
\* re-filter with the same bounds keeps every row the query returned.
C3_FilterTimeBound ==
    (query.loaded /\ QueryStart <= QueryEnd) =>
        /\ \A i \in DOMAIN db :
              PassesSelection(db[i]) =>
                  (InsideQueryRange(db[i])
                      <=> \E k \in DOMAIN df :
                             df[k] = [db[i] EXCEPT !.DateTime = strptime(db[i].DateTime)])
        /\ \A k \in DOMAIN df : QueryStart <= df[k].DateTime /\ df[k].DateTime <= QueryEnd
        /\ RangeFilter(df, query.start, query.end) = df

\* A range s < e with one row exactly at s, one exactly at e (both kept) .
C3_Witness ==
    /\ query.loaded /\ QueryStart < QueryEnd
    /\ \E k \in DOMAIN df : df[k].DateTime = QueryStart
    /\ \E k \in DOMAIN df : df[k].DateTime = QueryEnd
    /\ RangeFilter(df, query.start, query.end) = df

C5_EmptyInputSignal ==
    SchematicCalled =>
        /\ (RowsInCallRange = {}) <=> (call.out.fig = None /\ call.out.msg = Some(NoDataMsg))
        /\ (RowsInCallRange # {}) <=> (call.out.fig # None /\ call.out.msg = None)
        /\ (call.out.fig = None) <=> (call.out.msg # None)

\* A frame with readings, none of them in the valid range asked for.
C5_Witness ==
    /\ SchematicCalled /\ CallStart <= CallEnd
    /\ df # <<>> /\ RowsInCallRange = {}
    /\ call.out.fig = None /\ call.out.msg = Some(NoDataMsg)

\* C10: an empty selection loads the in-range rows of all beacons, a non-empty
\* one exactly the in-range rows of its beacons, and one naming no beacon of the
\* table loads an empty frame.
C10_BeaconRestriction ==
    query.loaded =>
        LET Wanted(row) ==
                /\ InsideQueryRange(row)
                /\ (query.sel # <<>> => row.BeaconDescription \in Range(query.sel))
        IN  /\ SameRows(df, to_datetime(SelectSeq(db, Wanted)))
            /\ (query.sel # <<>> /\ Range(query.sel) \cap GroupKeys(db) = {}) => df = <<>>

\* In-range rows of both beacons in the table, one beacon selected and loaded.
C10_Witness ==
    /\ query.loaded /\ query.sel = <<<<2>>>>
    /\ \E i \in DOMAIN db : InsideQueryRange(db[i]) /\ db[i].BeaconDescription = <<1, 0>>
    /\ df # <<>>
    /\ \A k \in DOMAIN df : df[k].BeaconDescription = <<2>>

PlotCalled == call.op = "plot" /\ call.out.fig # None

Fig == call.out.fig[1]

W == Seconds(call.time_window)

\* The frame rows of the plotted beacon, and their first and last instant.
PlotRows == {i \in DOMAIN df : df[i].BeaconDescription = call.beacon[1]}

First == MinOf({df[i].DateTime : i \in PlotRows})

Last == MaxOf({df[i].DateTime : i \in PlotRows})

SeriesOf(column) ==
    CASE column = "ExternalSensorTemperature" -> Fig.temp_resampled
      [] column = "ExternalSensorTemperatureExt1" -> Fig.temp_ext1_resampled
      [] column = "RSSI" -> Fig.rssi_median

Columns == {"ExternalSensorTemperature", "ExternalSensorTemperatureExt1", "RSSI"}

CeilDiv(a, b) == (a + b - 1) \div b

\* The plotted beacon's rows whose instant lies in [start, start + W).
RowsInBucket(start) ==
    {i \in PlotRows : start <= df[i].DateTime /\ df[i].DateTime < start + W}

\* C6 (as claimed): the resampled series of a beacon with a reading in the
\* range [start, end] of duration D has exactly ceil(D / w) buckets, whatever
\* the number and position of its readings.
C6_GridRegularity ==
    PlotCalled =>
        \A column \in Columns :
            Len(SeriesOf(column)) = CeilDiv(QueryEnd - QueryStart, W)

\* C6 (amended): the series has exactly floor(last / w) - floor(first / w) + 1
\* buckets, first and last being the beacon's earliest and latest reading; the
\* duration of the filtered range plays no part.
C6_BucketCount ==
    PlotCalled =>
        \A column \in Columns :
            Len(SeriesOf(column)) = (Last \div W) - (First \div W) + 1

\* Readings at two instants of different buckets inside a longer range: the
\* count follows the readings, not the range.
C6_Witness ==
    /\ PlotCalled /\ First < Last
    /\ Len(Fig.temp_resampled) = (Last \div W) - (First \div W) + 1
    /\ Len(Fig.temp_resampled) >= 2
    /\ Len(Fig.temp_resampled) # CeilDiv(QueryEnd - QueryStart, W)

\* C7: every bucket from the one of the beacon's earliest reading to the one
\* of its latest is emitted once, in chronological order, and a bucket without
\* a reading carries absent values in all three series.
C7_GapsStayVisible ==
    PlotCalled =>
        \A column \in Columns :
            LET series == SeriesOf(column)
            IN  /\ series[1].index = (First \div W) * W
                /\ series[Len(series)].index = (Last \div W) * W
                /\ \A k \in 1..(Len(series) - 1) :
                      series[k + 1].index = series[k].index + W
                /\ \A k \in DOMAIN series :
                      RowsInBucket(series[k].index) = {} => series[k].value = None

\* A bucket without reading strictly between two buckets with readings.
C7_Witness ==
    /\ PlotCalled
    /\ \E k \in 2..(Len(Fig.rssi_median) - 1) :
          /\ RowsInBucket(Fig.rssi_median[k].index) = {}
          /\ Fig.temp_resampled[k].value = None
          /\ Fig.temp_ext1_resampled[k].value = None
          /\ Fig.rssi_median[k].value = None

\* C8: every reading of the plotted beacon lies in exactly one emitted bucket,
\* the one starting at the largest multiple of w that is <= its timestamp, and
\* contributes there; a reading on a bucket boundary belongs to the bucket
\* that starts at it.
C8_BucketAlignment ==
    PlotCalled =>
        \A column \in Columns : \A i \in PlotRows :
            LET series == SeriesOf(column)
                ts == df[i].DateTime
                holding == {k \in DOMAIN series :
                              series[k].index <= ts /\ ts < series[k].index + W}
            IN  /\ Cardinality(holding) = 1
                /\ \A k \in holding :
                      /\ series[k].index = (ts \div W) * W
                      /\ df[i][column] # None => series[k].value # None
                /\ ts % W = 0 => \E k \in holding : series[k].index = ts

\* Five-minute buckets with one reading inside a bucket and a later one
\* exactly on a boundary.
C8_Witness ==
    /\ PlotCalled /\ call.time_window = "5min"
    /\ \E i \in PlotRows : df[i].DateTime % W # 0
    /\ \E i \in PlotRows :
          /\ df[i].DateTime % W = 0 /\ df[i].DateTime = Last /\ First < Last
          /\ Fig.rssi_median[Len(Fig.rssi_median)].index = df[i].DateTime

\* The non-null values of a column over the plotted beacon's rows of a bucket.
BucketColumn(start, column) ==
    LET Keep(row) ==
            /\ row.BeaconDescription = call.beacon[1]
            /\ start <= row.DateTime /\ row.DateTime < start + W
            /\ row[column] # None
        rows == SelectSeq(df, Keep)
    IN  [i \in 1..Len(rows) |-> rows[i][column][1]]

\* The k-th smallest of a non-empty sequence of values.
Kth(values, k) ==
    CHOOSE x \in Range(values) :
        /\ Cardinality({i \in DOMAIN values : values[i] < x}) < k
        /\ k <= Cardinality({i \in DOMAIN values : values[i] <= x})

IsMeanOf(value, values) ==
    IF values = <<>> THEN value = None
    ELSE /\ value # None
         /\ value[1][2] > 0
         /\ value[1][1] * Len(values) = SumSeq(values) * value[1][2]

IsMedianOf(value, values) ==
    LET n == Len(values)
    IN  IF n = 0 THEN value = None
        ELSE /\ value # None
             /\ value[1][2] > 0
             /\ IF n % 2 = 1
                THEN value[1][1] = Kth(values, (n + 1) \div 2) * value[1][2]
                ELSE 2 * value[1][1] =
                        (Kth(values, n \div 2) + Kth(values, (n \div 2) + 1)) * value[1][2]

\* The two readings of the end-to-end scenario, for beacon "2".
ScenarioRows ==
    {Row(36000, <<2>>, Some(3520), Some(3584), Some(-70)),
     Row(36180, <<2>>, Some(3840), Some(3776), Some(-72))}

IsScenario ==
    /\ PlotCalled /\ call.beacon = Some(<<2>>) /\ call.time_window = "5min"
    /\ Cardinality(PlotRows) = 2
    /\ {df[i] : i \in PlotRows} = ScenarioRows

\* C9: in every bucket the two temperature values are the arithmetic means of
\* the bucket's non-null values and the signal strength is their median (the
\* average of the two middle values for an even count); nulls are not counted.
\* The scenario (10:00, 110, 112, -70), (10:03, 120, 118, -72) at 5 minutes gives
\* one bucket at 10:00 with 115.0, 115.0 and -71.0.
C9_BucketAggregates ==
    /\ PlotCalled =>
          /\ \A column \in {"ExternalSensorTemperature", "ExternalSensorTemperatureExt1"} :
                \A k \in DOMAIN SeriesOf(column) :
                    IsMeanOf(SeriesOf(column)[k].value,
                             BucketColumn(SeriesOf(column)[k].index, column))
          /\ \A k \in DOMAIN Fig.rssi_median :
                IsMedianOf(Fig.rssi_median[k].value,
                           BucketColumn(Fig.rssi_median[k].index, "RSSI"))
    /\ IsScenario =>
          /\ Fig.temp_resampled = <<[index |-> 36000, value |-> Some(<<3680, 1>>)]>>
          /\ Fig.temp_ext1_resampled = <<[index |-> 36000, value |-> Some(<<3680, 1>>)]>>
          /\ Fig.rssi_median = <<[index |-> 36000, value |-> Some(<<-71, 1>>)]>>

\* The scenario itself, plotted.
C9_Witness ==
    /\ IsScenario
    /\ Fig.temp_resampled[1].value = Some(<<3680, 1>>)
    /\ Fig.rssi_median[1].value = Some(<<-71, 1>>)

PlotInvoked == call.op = "plot"

\* C11 (as claimed): for a beacon without a reading in the frame the resample
\* operation returns an empty sequence of buckets, not a missing result.
C11_EmptySequence ==
    (PlotInvoked /\ PlotRows = {}) =>
        /\ call.out.fig # None
        /\ \A column \in Columns : SeriesOf(column) = <<>>

\* C11 (amended): for a beacon without a reading in the frame
\* create_interactive_plot returns None, no figure and no series, and a figure
\* is returned exactly when the beacon has a reading.
C11_EmptyInputIsNone ==
    PlotInvoked =>
        /\ (PlotRows = {}) <=> (call.out.fig = None)
        /\ call.out.msg = None

\* A frame with readings of one beacon only, plotted for the other one.
C11_Witness ==
    /\ PlotInvoked /\ df # <<>> /\ PlotRows = {}
    /\ call.out.fig = None

\* The descriptions shown in the grid, in cell order.
ShownBeacons ==
    LET grid == call.out.fig[1]
        Shows(c) == c.beacon # None
        cells == SelectSeq(grid, Shows)
    IN  [k \in 1..Len(cells) |-> cells[k].beacon[1]]

\* C12: the schematic shows each distinct beacon of the filtered readings
\* once, in ascending lexicographic order of its description, filling the
\* cells row by row from the first one.
C12_SummaryOrdering ==
    (SchematicCalled /\ call.out.fig # None) =>
        LET grid == call.out.fig[1]
            shown == ShownBeacons
        IN  /\ \A k \in 1..(Len(shown) - 1) : LexLess(shown[k], shown[k + 1])
            /\ \A k \in 1..Len(shown) : grid[k].beacon = Some(shown[k])
            /\ \A k \in (Len(shown) + 1)..Len(grid) : grid[k].beacon = None
            /\ Cardinality({df[i].BeaconDescription : i \in RowsInCallRange})
                  <= GridRows * GridCols
                  => Range(shown) = {df[i].BeaconDescription : i \in RowsInCallRange}

\* Beacons "2" and "10" both in range: "10" is in the first cell, "2" in the
\* second.
C12_Witness ==
    /\ SchematicCalled /\ call.out.fig # None
    /\ ShownBeacons = <<<<1, 0>>, <<2>>>>

InMain == run.pc # "none"

\* C14 (as claimed): in a run in which Smart Select or Good Temp was pressed,
\* start_datetime and end_datetime are bound when the handler reads them, no
\* error is raised, and the handler leaves the selection set to the top beacons
\* by quality score respectively the beacons with good temperature data (the
\* first 10 beacons when there is no quality data).
C14_SmartSelectionCompletes ==
    (InMain /\ run.button \in {"smart_select", "good_temp"}) =>
        /\ run.start_datetime # None
        /\ run.end_datetime # None
        /\ run.error = ""
        /\ LET quality_df == get_beacon_data_quality(
                   db, strftime(run.start_datetime[1]), strftime(run.end_datetime[1]))
           IN  run.pc = "select" =>
                   run.session = Some(IF run.button = "smart_select"
                                      THEN SmartSelect(quality_df, run.beacons)
                                      ELSE GoodTemp(quality_df, run.beacons))

CellsColored(color) ==
    Cardinality({k \in DOMAIN call.out.fig[1] : call.out.fig[1][k].color = color})

\* C15 (as claimed): whenever the Schematic Summary is shown, its 'Within 5'
\* count equals the number of green cells of the grid, its 'Within 15' count
\* the number of yellow cells, its 'Beyond 15' count the number of red cells,
\* and the three counts add up to its 'Total Beacons' count.
C15_GridSummaryAgree ==
    (InMain /\ run.summary.shown) =>
        /\ run.summary.green_count = CellsColored("lightgreen")
        /\ run.summary.yellow_count = CellsColored("yellow")
        /\ run.summary.red_count = CellsColored("lightcoral")
        /\ run.summary.green_count + run.summary.yellow_count
               + run.summary.red_count = run.summary.total_beacons

\* C16 (as claimed): whatever the number of distinct beacons in the filtered
\* readings, each of them occupies exactly one cell of the 3x11 grid and every
\* other cell is marked 'Empty'.
C16_NoBeaconLost ==
    (SchematicCalled /\ call.out.fig # None) =>
        LET grid == call.out.fig[1]
        IN  /\ \A b \in {df[i].BeaconDescription : i \in RowsInCallRange} :
                  Cardinality({k \in DOMAIN grid : grid[k].beacon = Some(b)}) = 1
            /\ \A k \in DOMAIN grid :
                  grid[k].beacon = None => grid[k] = EmptyCell

ExitPaths == {"no_beacons", "no_date_range", "no_selection", "no_data",
              "rerun", "exception", "completed"}

\* C17: a run that wrote the upload to a temporary file ends, on each of its
\* exit paths, with that file deleted; the file is deleted only at the end of
\* the run, and no read of the database is attempted on a deleted file.
C17_TemporaryCleanup ==
    InMain =>
        /\ (run.pc = "done" /\ run.exit # "no_upload") =>
               (run.tmp = "deleted" /\ run.exit \in ExitPaths)
        /\ run.tmp = "deleted" => run.pc = "done"
        /\ run.tmp = "none" => run.pc \in {"start", "done"}
        /\ ~run.read_deleted

\* A run that a query's exception ended has finished with the file deleted.
C17_Witness ==
    /\ run.pc = "done"
    /\ run.exit = "exception"
    /\ run.error = "DatabaseError"
    /\ run.tmp = "deleted"

====
